---- MODULE Spec2Model ----
(***************************************************************************)
(* The video library backend: the VideoController handlers                 *)
(* (src/src/video/video.controller.ts) over the Video Record Store and the *)
(* Object Storage Gateway, and the request middleware of bootstrap()       *)
(* (src/unnamed/part_000: rate limiters and timeouts).                     *)
(*                                                                         *)
(* Sizes are counted in KiB (a byte count of 2 GiB does not fit TLC's      *)
(* integers); a content type and a URL are sequences of tokens, so that    *)
(* the pattern match and the substring test are computed.                  *)
(***************************************************************************)
EXTENDS Integers, Sequences, FiniteSets, TLC

\* ------------------------------------------------------------------ bounds
NumWorkers == 2
MaxUploads == 2
MaxUncounted == 1

Workers == 1..NumWorkers
Null == [tag |-> "null"]
\* a fileKey that is null
NoKey == 0

\* ------------------------------------------------------- program constants
HttpStatus_OK == 200
HttpStatus_CREATED == 201
HttpStatus_NOT_FOUND == 404
HttpStatus_UNPROCESSABLE_ENTITY == 422
HttpStatus_INTERNAL_SERVER_ERROR == 500
PAYLOAD_TOO_LARGE == 413

\* 1024 * 1024 bytes, in KiB
MiB == 1024
\* FileInterceptor limits.fileSize and MaxFileSizeValidator maxSize: 1024 * 1024 * 2000 bytes
fileSize == MiB * 2000
maxSize == MiB * 2000
\* the size constraint of the data model: 2 GiB
TwoGiB == 2 * 1024 * MiB

\* ------------------------------------------------------------------ inputs
UploadTitles == {"IV Insertion"}
Titles == {"IV Insertion", "t2"}
Sizes == {10 * MiB, maxSize - 1, maxSize, maxSize + 1, TwoGiB + 1}
MimeTypes == { <<"video", "/", "mp4">>,
               <<"image", "/", "png">>,
               <<"application", "/", "x-", "video">> }
Files == [size : Sizes, mimetype : MimeTypes]
\* identifier 0 is a row that predates the upload workflow; 1..MaxUploads are assigned by create
Ids == 0..MaxUploads

\* ------------------------------------------------------------------ errors
\* the statusCode property an error carries, by its classification in the taxonomy
\* (ValidationError, NotFound, StorageError, ConflictError; InternalError has none: 0)
StatusCodeOf(class) ==
  CASE class = "ValidationError" -> 422
    [] class = "NotFound" -> 404
    [] class = "StorageError" -> 502
    [] class = "ConflictError" -> 409
    [] OTHER -> 0

\* an error as the store, the gateway or the workflow raises it: an unclassified
\* error has no statusCode, and here no message either
ErrorOf(class) ==
  [class |-> class, statusCode |-> StatusCodeOf(class),
   message |-> IF class = "InternalError" THEN "" ELSE class]

\* ---------------------------------------------------------------- envelope
Envelope(statusCode, message, data) ==
  [kind |-> "envelope", statusCode |-> statusCode, message |-> message, data |-> data]

\* what a pipe or an interceptor throws before the handler runs
Thrown(statusCode, message) ==
  [kind |-> "thrown", statusCode |-> statusCode, message |-> message, data |-> Null]

NoResponse == [kind |-> "none", statusCode |-> 0, message |-> "", data |-> Null]

\* a catch that answers 500 whatever the error
StatusOrDefaultAlways500(error) == HttpStatus_INTERNAL_SERVER_ERROR

\* error.statusCode || HttpStatus.INTERNAL_SERVER_ERROR
StatusOrDefault(error) ==
  IF error.statusCode # 0 THEN error.statusCode ELSE HttpStatus_INTERNAL_SERVER_ERROR

\* error.message || '<the handler's own message>'
MessageOrDefault(error, defaultMessage) ==
  IF error.message # "" THEN error.message ELSE defaultMessage

\* the catch block every handler ends with
CatchEnvelope(error, defaultMessage) ==
  Envelope(StatusOrDefault(error), MessageOrDefault(error, defaultMessage), Null)

\* a handler that returns has the route's default status: 201 for @Post, 200 otherwise
HttpCodeOf(op) == IF op = "uploadVideo" THEN HttpStatus_CREATED ELSE HttpStatus_OK

\* ------------------------------------------------------- upload validation
\* multer stops a file whose byte count goes past limits.fileSize
MulterAccepts(file) == file.size <= fileSize

\* MaxFileSizeValidator.isValid: file.size < maxSize
MaxFileSizeValidator(file) == file.size < maxSize

\* mimetype.match('video/*'): the pattern is unanchored, and matches from any
\* position that holds "video" (followed by any number of "/", none included)
PatternMatch(mimetype) == \E i \in 1..Len(mimetype) : mimetype[i] = "video"

\* FileTypeValidator.isValid: !!file.mimetype.match(fileType)
FileTypeValidator(file) == PatternMatch(file.mimetype)

\* ParseFilePipe: every validator must accept
ParseFilePipe(file) == MaxFileSizeValidator(file) /\ FileTypeValidator(file)

\* the media type is video/<subtype>
IsVideoMediaType(mimetype) ==
  Len(mimetype) >= 3 /\ mimetype[1] = "video" /\ mimetype[2] = "/"

\* step 1 of the upload workflow: the constraints of the UploadRequest
WorkflowValid(file) == file.size <= TwoGiB /\ IsVideoMediaType(file.mimetype)

\* ------------------------------------------------- record store and gateway
\* the fields of a VideoRecord and of a stored object that the handlers read
Video(id, fileKey, title) ==
  [tag |-> "video", id |-> id, fileKey |-> fileKey, title |-> title]

Object(key) == [key |-> key]

\* how the store and the gateway fail
StoreErrors == {ErrorOf("InternalError")}
CreateErrors == {ErrorOf("ConflictError"), ErrorOf("InternalError")}
GatewayErrors == {ErrorOf("StorageError")}

VARIABLES
  records,    \* Video Record Store: identifier -> Video or Null
  objects,    \* Storage Gateway: the objects held, each under its key
  nextKey,    \* the next fresh storage key
  nextId,     \* the next identifier the store assigns
  pc,         \* each worker's position in its request
  req,        \* each worker's request: the route and its inputs
  loc,        \* each worker's locals
  resp,       \* each worker's response body
  http,       \* each worker's HTTP transport status
  hits,       \* rate limiters: the requests counted in the current window, per limiter
  uncounted,  \* requests let through in the current window that no limiter counted
  last        \* the last request the middleware chain handled and what it did with it

ctl == <<records, objects, nextKey, nextId, pc, req, loc, resp, http>>
mw == <<hits, uncounted, last>>
vars == <<records, objects, nextKey, nextId, pc, req, loc, resp, http, hits, uncounted, last>>

HasObject(key) == \E o \in objects : o.key = key

\* put(key, bytes): overwrites what the key holds
GatewayPut(key) == {o \in objects : o.key # key} \cup {Object(key)}

\* delete(key): the absence of the key is no error
GatewayDelete(key) == {o \in objects : o.key # key}

\* signedUrl(key): NotFound when the key holds no object
GatewaySignedUrl(key) ==
  IF HasObject(key) THEN [tag |-> "url", key |-> key] ELSE ErrorOf("NotFound")

\* videoService.findOne(id): the record, or null
ServiceFindOne(id) == records[id]

\* videoService.findAll()
ServiceFindAll == [tag |-> "list", ids |-> {i \in Ids : records[i] # Null}]

\* videoService.update(id, dto): the record with its title replaced, or null
ServiceUpdate(id, title) ==
  IF records[id] = Null THEN Null ELSE [records[id] EXCEPT !.title = title]

RecordsAfterUpdate(id, title) == [records EXCEPT ![id] = ServiceUpdate(id, title)]

\* videoService.remove(id): the store's delete of the record
RecordsAfterRemove(id) == [records EXCEPT ![id] = Null]

NoFile == [size |-> 0, mimetype |-> <<>>]
NoRequest == [op |-> "idle", id |-> 0, file |-> NoFile, title |-> ""]
NoLocals == [key |-> NoKey, error |-> Null, failedAt |-> "", video |-> Null,
             invoked |-> FALSE, signCalls |-> 0, signKey |-> NoKey,
             delCalls |-> 0, delOk |-> FALSE]

\* the requests a route takes
RequestsOf(op) ==
  IF op = "uploadVideo" THEN [op : {op}, id : {0}, file : Files, title : UploadTitles]
  ELSE IF op = "findAll" THEN [op : {op}, id : {0}, file : {NoFile}, title : {""}]
  ELSE IF op = "update" THEN [op : {op}, id : Ids, file : {NoFile}, title : Titles]
  ELSE [op : {op}, id : Ids, file : {NoFile}, title : {""}]

\* the store as found at start: empty, or holding a row without a storage key
InitialRecords ==
  { [i \in Ids |-> Null],
    [i \in Ids |-> IF i = 0 THEN Video(0, NoKey, "t2") ELSE Null] }

MwInit ==
  /\ hits = [general |-> 0, upload |-> 0]
  /\ uncounted = 0
  /\ last = [url |-> <<>>, skipped |-> FALSE, counted |-> FALSE, passed |-> FALSE, deadline |-> 0]

CtlInit ==
  /\ records \in InitialRecords
  /\ objects = {}
  /\ nextKey = 1
  /\ nextId = 1
  /\ pc = [w \in Workers |-> "idle"]
  /\ req = [w \in Workers |-> NoRequest]
  /\ loc = [w \in Workers |-> NoLocals]
  /\ resp = [w \in Workers |-> NoResponse]
  /\ http = [w \in Workers |-> 0]

Init == CtlInit /\ MwInit

\* ------------------------------------------------------ handler responses
\* a catch that answers with the handler's own message and 500, not with the error
uploadVideoCatchGeneric(error) ==
  Envelope(HttpStatus_INTERNAL_SERVER_ERROR, "Error al subir el video", Null)

\* uploadVideo's catch block
uploadVideoCatch(error) == CatchEnvelope(error, "Error al subir el video")

\* findOne: `if (!video)` and the two envelopes
findOneResponse(video) ==
  IF video = Null
    THEN Envelope(HttpStatus_OK, "Video no encontrado", Null)
    ELSE Envelope(HttpStatus_OK, "Video obtenido exitosamente", video)

\* a guard that forgets the storage key
getSignedUrlMissIgnoresKey(video) == video = Null

\* getSignedUrl: `if (!video || !video.fileKey)`
getSignedUrlMiss(video) == video = Null \/ video.fileKey = NoKey

\* update: `if (!updatedVideo)` and the two envelopes
updateResponse(updatedVideo) ==
  IF updatedVideo = Null
    THEN Envelope(HttpStatus_OK, "Video no encontrado", Null)
    ELSE Envelope(HttpStatus_OK, "Video actualizado exitosamente", updatedVideo)

\* a remove that answers a miss with 404
removeResponseMiss404(deletedVideo) ==
  IF deletedVideo = Null
    THEN Envelope(HttpStatus_NOT_FOUND, "Video no encontrado", Null)
    ELSE Envelope(HttpStatus_OK, "Video eliminado exitosamente", Null)

\* remove: `if (!deletedVideo)` and the two envelopes
removeResponse(deletedVideo) ==
  IF deletedVideo = Null
    THEN Envelope(HttpStatus_OK, "Video no encontrado", Null)
    ELSE Envelope(HttpStatus_OK, "Video eliminado exitosamente", Null)

\* ----------------------------------------------------------------- actions
\* request r arrives at the free worker w
Arrive(w, r) ==
  /\ pc[w] = "idle"
  /\ req' = [req EXCEPT ![w] = r]

\* the handler of route op, run by worker w, returns `envelope`
Respond(w, op, envelope) ==
  /\ resp' = [resp EXCEPT ![w] = envelope]
  /\ http' = [http EXCEPT ![w] = HttpCodeOf(op)]
  /\ pc' = [pc EXCEPT ![w] = "done"]

\* a call of worker w raises `e` at `step`, and the handler's catch returns `envelope`
Raise(w, op, step, e, envelope) ==
  /\ loc' = [loc EXCEPT ![w].error = e, ![w].failedAt = step]
  /\ Respond(w, op, envelope)

\* POST /videos/upload up to the first I/O: FileInterceptor, ParseFilePipe, then
\* the handler, which enters the upload workflow (validation, key derivation)
UploadBegin(w) ==
  \E r \in RequestsOf("uploadVideo") :
  /\ Arrive(w, r)
  /\ LET file == r.file IN
       IF ~MulterAccepts(file)
         THEN /\ resp' = [resp EXCEPT ![w] = Thrown(PAYLOAD_TOO_LARGE, "File too large")]
              /\ http' = [http EXCEPT ![w] = PAYLOAD_TOO_LARGE]
              /\ pc' = [pc EXCEPT ![w] = "done"]
              /\ UNCHANGED <<nextKey, loc>>
       ELSE IF ~ParseFilePipe(file)
         THEN \* the exceptionFactory's plain object is thrown; the exception filter
              \* answers with its statusCode or, not knowing it, with 500
              /\ resp' = [resp EXCEPT ![w] =
                   Thrown(HttpStatus_UNPROCESSABLE_ENTITY, "Error de validacion del archivo")]
              /\ \E code \in {HttpStatus_UNPROCESSABLE_ENTITY, HttpStatus_INTERNAL_SERVER_ERROR} :
                   http' = [http EXCEPT ![w] = code]
              /\ pc' = [pc EXCEPT ![w] = "done"]
              /\ UNCHANGED <<nextKey, loc>>
       ELSE IF ~WorkflowValid(file)
         THEN /\ loc' = [loc EXCEPT ![w].invoked = TRUE, ![w].failedAt = "validate",
                                    ![w].error = ErrorOf("ValidationError")]
              /\ Respond(w, r.op, uploadVideoCatch(ErrorOf("ValidationError")))
              /\ UNCHANGED nextKey
       ELSE /\ nextKey <= MaxUploads
            /\ loc' = [loc EXCEPT ![w].invoked = TRUE, ![w].key = nextKey]
            /\ nextKey' = nextKey + 1
            /\ pc' = [pc EXCEPT ![w] = "put"]
            /\ UNCHANGED <<resp, http>>
  /\ UNCHANGED <<records, objects, nextId, mw>>

\* upload workflow step 3: gateway put; its failure ends the upload
UploadPut(w) ==
  /\ pc[w] = "put"
  /\ \/ /\ objects' = GatewayPut(loc[w].key)
        /\ pc' = [pc EXCEPT ![w] = "create"]
        /\ UNCHANGED <<loc, resp, http>>
     \/ \E e \in GatewayErrors :
          /\ Raise(w, req[w].op, "put", e, uploadVideoCatch(e))
          /\ UNCHANGED objects
  /\ UNCHANGED <<records, nextKey, nextId, req, mw>>

\* upload workflow step 4: record store create; the handler returns the record
UploadCreate(w) ==
  /\ pc[w] = "create"
  /\ \/ LET video == Video(nextId, loc[w].key, req[w].title) IN
          /\ records' = [records EXCEPT ![nextId] = video]
          /\ nextId' = nextId + 1
          /\ loc' = [loc EXCEPT ![w].video = video]
          /\ Respond(w, req[w].op,
                     Envelope(HttpStatus_CREATED, "Video subido exitosamente", video))
     \/ \E e \in CreateErrors :
          /\ loc' = [loc EXCEPT ![w].error = e, ![w].failedAt = "create"]
          /\ pc' = [pc EXCEPT ![w] = "compensate"]
          /\ UNCHANGED <<records, nextId, resp, http>>
  /\ UNCHANGED <<objects, nextKey, req, mw>>

\* the compensating delete of the object just put: whether it worked
Compensate(w, ok) ==
  /\ loc' = [loc EXCEPT ![w].delCalls = @ + 1, ![w].delOk = ok]
  /\ objects' = IF ok THEN GatewayDelete(loc[w].key) ELSE objects

\* upload workflow step 4, on a failed create: delete the object, then raise the
\* create's error, which the handler's catch returns
UploadCompensate(w) ==
  /\ pc[w] = "compensate"
  /\ \E ok \in BOOLEAN : Compensate(w, ok)
  /\ Respond(w, req[w].op, uploadVideoCatch(loc[w].error))
  /\ UNCHANGED <<records, nextKey, nextId, req, mw>>

\* GET /videos
FindAll(w) ==
  \E r \in RequestsOf("findAll") :
  /\ Arrive(w, r)
  /\ \/ /\ Respond(w, r.op, Envelope(HttpStatus_OK, "Videos obtenidos exitosamente",
                                     ServiceFindAll))
        /\ loc' = [loc EXCEPT ![w].invoked = TRUE]
     \/ \E e \in StoreErrors : Raise(w, r.op, "find", e, CatchEnvelope(e, "Error al obtener los videos"))
  /\ UNCHANGED <<records, objects, nextKey, nextId, mw>>

\* GET /videos/:id
FindOne(w) ==
  \E r \in RequestsOf("findOne") :
  /\ Arrive(w, r)
  /\ \/ /\ Respond(w, r.op, findOneResponse(ServiceFindOne(r.id)))
        /\ loc' = [loc EXCEPT ![w].invoked = TRUE, ![w].video = ServiceFindOne(r.id)]
     \/ \E e \in StoreErrors : Raise(w, r.op, "find", e, CatchEnvelope(e, "Error al obtener el video"))
  /\ UNCHANGED <<records, objects, nextKey, nextId, mw>>

\* GET /videos/:id/signed-url, up to the gateway call
SignedUrlLookup(w) ==
  \E r \in RequestsOf("getSignedUrl") :
  /\ Arrive(w, r)
  /\ \/ LET video == ServiceFindOne(r.id) IN
          /\ loc' = [loc EXCEPT ![w].invoked = TRUE, ![w].video = video]
          /\ IF getSignedUrlMiss(video)
               THEN Respond(w, r.op,
                            Envelope(HttpStatus_NOT_FOUND, "Video no encontrado", Null))
               ELSE /\ pc' = [pc EXCEPT ![w] = "sign"]
                    /\ UNCHANGED <<resp, http>>
     \/ \E e \in StoreErrors : Raise(w, r.op, "find", e, CatchEnvelope(e, "Error al obtener la URL firmada"))
  /\ UNCHANGED <<records, objects, nextKey, nextId, mw>>

\* GET /videos/:id/signed-url: s3Service.getSignedUrl(video.fileKey)
SignedUrlSign(w) ==
  /\ pc[w] = "sign"
  /\ LET key == IF loc[w].video = Null THEN NoKey ELSE loc[w].video.fileKey
         called == [loc EXCEPT ![w].signCalls = @ + 1, ![w].signKey = key]
     IN
       \/ /\ HasObject(key)
          /\ loc' = called
          /\ Respond(w, req[w].op,
                     Envelope(HttpStatus_OK, "URL firmada obtenida exitosamente",
                              GatewaySignedUrl(key)))
       \/ \E e \in (IF HasObject(key) THEN {} ELSE {GatewaySignedUrl(key)}) \cup GatewayErrors :
            /\ loc' = [called EXCEPT ![w].error = e, ![w].failedAt = "sign"]
            /\ Respond(w, req[w].op, CatchEnvelope(e, "Error al obtener la URL firmada"))
  /\ UNCHANGED <<records, objects, nextKey, nextId, req, mw>>

\* PATCH /videos/:id
Update(w) ==
  \E r \in RequestsOf("update") :
  /\ Arrive(w, r)
  /\ \/ /\ records' = RecordsAfterUpdate(r.id, r.title)
        /\ loc' = [loc EXCEPT ![w].invoked = TRUE, ![w].video = ServiceUpdate(r.id, r.title)]
        /\ Respond(w, r.op, updateResponse(ServiceUpdate(r.id, r.title)))
     \/ \E e \in StoreErrors :
          /\ Raise(w, r.op, "update", e, CatchEnvelope(e, "Error al actualizar el video"))
          /\ UNCHANGED records
  /\ UNCHANGED <<objects, nextKey, nextId, mw>>

\* DELETE /videos/:id up to the first I/O of videoService.remove(id). The service
\* deletes the record and, best-effort, its backing object; which of the two calls
\* comes first is stated nowhere, so both orders are behaviours of the program:
\* the store's delete first (it returns the deleted record, whose key the gateway
\* call then uses), or a lookup of the record first, then the gateway, then the store.
RemoveBegin(w) ==
  \E r \in RequestsOf("remove") :
  /\ Arrive(w, r)
  /\ \/ LET deletedVideo == ServiceFindOne(r.id) IN
          /\ records' = RecordsAfterRemove(r.id)
          /\ loc' = [loc EXCEPT ![w].invoked = TRUE, ![w].video = deletedVideo]
          /\ IF deletedVideo # Null /\ deletedVideo.fileKey # NoKey
               THEN /\ pc' = [pc EXCEPT ![w] = "gwDelete"]
                    /\ UNCHANGED <<resp, http>>
               ELSE Respond(w, r.op, removeResponse(deletedVideo))
     \/ LET video == ServiceFindOne(r.id) IN
          /\ video # Null /\ video.fileKey # NoKey
          /\ loc' = [loc EXCEPT ![w].invoked = TRUE, ![w].video = video]
          /\ pc' = [pc EXCEPT ![w] = "gwDeleteFirst"]
          /\ UNCHANGED <<records, resp, http>>
     \/ \E e \in StoreErrors :
          /\ Raise(w, r.op, "remove", e, CatchEnvelope(e, "Error al eliminar el video"))
          /\ UNCHANGED records
  /\ UNCHANGED <<objects, nextKey, nextId, mw>>

\* videoService.remove: the best-effort delete of the backing object, its error ignored
RemoveBackingObject(w, ok) ==
  /\ loc' = [loc EXCEPT ![w].delCalls = @ + 1, ![w].delOk = ok]
  /\ objects' = IF ok THEN GatewayDelete(loc[w].video.fileKey) ELSE objects

\* store first: the gateway delete ends videoService.remove, and the handler answers
RemoveObject(w) ==
  /\ pc[w] = "gwDelete"
  /\ \E ok \in BOOLEAN : RemoveBackingObject(w, ok)
  /\ Respond(w, req[w].op, removeResponse(loc[w].video))
  /\ UNCHANGED <<records, nextKey, nextId, req, mw>>

\* gateway first: the gateway delete, then on to the store's delete
RemoveObjectFirst(w) ==
  /\ pc[w] = "gwDeleteFirst"
  /\ \E ok \in BOOLEAN : RemoveBackingObject(w, ok)
  /\ pc' = [pc EXCEPT ![w] = "storeDelete"]
  /\ UNCHANGED <<records, nextKey, nextId, req, resp, http, mw>>

\* gateway first: the store's delete ends videoService.remove, and the handler
\* answers; the store may fail, and the handler's catch then answers
RemoveRecordLast(w) ==
  /\ pc[w] = "storeDelete"
  /\ \/ LET deletedVideo == ServiceFindOne(req[w].id) IN
          /\ records' = RecordsAfterRemove(req[w].id)
          /\ loc' = [loc EXCEPT ![w].video = deletedVideo]
          /\ Respond(w, req[w].op, removeResponse(deletedVideo))
     \/ \E e \in StoreErrors :
          /\ Raise(w, req[w].op, "remove", e, CatchEnvelope(e, "Error al eliminar el video"))
          /\ UNCHANGED records
  /\ UNCHANGED <<objects, nextKey, nextId, req, mw>>

\* the response is sent and the worker is free again
Finish(w) ==
  /\ pc[w] = "done"
  /\ pc' = [pc EXCEPT ![w] = "idle"]
  /\ req' = [req EXCEPT ![w] = NoRequest]
  /\ loc' = [loc EXCEPT ![w] = NoLocals]
  /\ resp' = [resp EXCEPT ![w] = NoResponse]
  /\ http' = [http EXCEPT ![w] = 0]
  /\ UNCHANGED <<records, objects, nextKey, nextId, mw>>

Next ==
  \E w \in Workers :
    \/ FindAll(w)
    \/ FindOne(w)
    \/ SignedUrlLookup(w)
    \/ SignedUrlSign(w)
    \/ Update(w)
    \/ RemoveBegin(w)
    \/ RemoveObject(w)
    \/ RemoveObjectFirst(w)
    \/ RemoveRecordLast(w)
    \/ UploadBegin(w)
    \/ UploadPut(w)
    \/ UploadCreate(w)
    \/ UploadCompensate(w)
    \/ Finish(w)

Spec == Init /\ [][Next]_vars

\* ------------------------------------------------- bootstrap(): middleware
\* rateLimit({ windowMs: 15 * 60 * 1000, max: 100, skip })
GeneralMax == 100
\* rateLimit({ windowMs: 60 * 60 * 1000, max: 10 }) under /api/v1/videos/upload
UploadMax == 10
\* new TimeoutInterceptor(300000), global
InterceptorTimeout == 300000
\* req.setTimeout(600000) and res.setTimeout(600000)
RequestTimeout == 600000
ResponseTimeout == 600000

\* req.url, token by token
Urls == { <<"/", "api", "/", "v1", "/", "videos", "/", "upload">>,
          <<"/", "api", "/", "v1", "/", "videos">>,
          <<"/", "api", "/", "v1", "/", "videos", "/", "42">>,
          <<"/", "api", "/", "v1", "/", "videos", "?", "ref", "=", "/", "videos", "/", "upload">>,
          <<"/", "api", "/", "v1", "/", "videos", "/", "upload", "s">> }

UploadNeedle == <<"/", "videos", "/", "upload">>
UploadMount == <<"/", "api", "/", "v1", "/", "videos", "/", "upload">>

\* String.prototype.includes
Includes(url, needle) ==
  \E i \in 0..(Len(url) - Len(needle)) :
    \A j \in 1..Len(needle) : url[i + j] = needle[j]

\* the path of a URL: what precedes "?"
RECURSIVE PathOf(_)
PathOf(url) ==
  IF url = <<>> \/ Head(url) = "?" THEN <<>> ELSE <<Head(url)>> \o PathOf(Tail(url))

\* app.use(mount, fn): the path starts with the mount, up to a "/" or its end
MountMatches(url, mount) ==
  LET path == PathOf(url) IN
    /\ Len(path) >= Len(mount)
    /\ SubSeq(path, 1, Len(mount)) = mount
    /\ (Len(path) = Len(mount) \/ path[Len(mount) + 1] = "/")

\* the general limiter's skip: req.url?.includes('/videos/upload') || false
SkipGeneral(url) == Includes(url, UploadNeedle)

\* the request is one to POST /api/v1/videos/upload
TargetsUpload(url) == PathOf(url) = UploadMount

\* the timeouts in force on a request that reaches its handler
TimeoutsOf(url) ==
  {InterceptorTimeout}
    \cup (IF Includes(url, UploadNeedle) THEN {RequestTimeout, ResponseTimeout} ELSE {})

\* the deadline of a request: the least of the timeouts in force on it
EffectiveDeadline(url) == CHOOSE t \in TimeoutsOf(url) : \A u \in TimeoutsOf(url) : t <= u

\* a limiter counts the request: the count after it, held at one past the quota
Hit(count, max) == IF count > max THEN count ELSE count + 1

\* one request through the chain: general limiter, upload limiter, timeouts
Request(url) ==
  LET skipped == SkipGeneral(url)
      general == IF skipped THEN hits.general ELSE Hit(hits.general, GeneralMax)
      passedGeneral == skipped \/ general <= GeneralMax
      counted == passedGeneral /\ MountMatches(url, UploadMount)
      upload == IF counted THEN Hit(hits.upload, UploadMax) ELSE hits.upload
      passed == passedGeneral /\ (counted => upload <= UploadMax)
  IN /\ hits' = [general |-> general, upload |-> upload]
     /\ IF skipped /\ ~counted
          THEN uncounted < MaxUncounted /\ uncounted' = uncounted + 1
          ELSE uncounted' = uncounted
     /\ last' = [url |-> url, skipped |-> skipped, counted |-> counted, passed |-> passed,
                 deadline |-> IF passed THEN EffectiveDeadline(url) ELSE 0]
     /\ UNCHANGED ctl

\* the general limiter's 15-minute window ends
WindowGeneral ==
  /\ hits.general > 0 \/ uncounted > 0
  /\ hits' = [hits EXCEPT !.general = 0]
  /\ uncounted' = 0
  /\ UNCHANGED <<last, ctl>>

\* the upload limiter's 1-hour window ends
WindowUpload ==
  /\ hits.upload > 0
  /\ hits' = [hits EXCEPT !.upload = 0]
  /\ UNCHANGED <<uncounted, last, ctl>>

\* requests to routes other than the upload let through in the general limiter's window
AdmittedOther == (IF hits.general > GeneralMax THEN GeneralMax ELSE hits.general) + uncounted

\* upload requests let through in the upload limiter's window
AdmittedUpload == IF hits.upload > UploadMax THEN UploadMax ELSE hits.upload

NextMw ==
  \/ \E url \in Urls : Request(url)
  \/ WindowGeneral
  \/ WindowUpload

InitMw == Init /\ records = [i \in Ids |-> Null]

SpecMw == InitMw /\ [][NextMw]_vars


\* ------------------------------------------------------------------ claims
Done(w, op) == pc[w] = "done" /\ req[w].op = op

\* C1: every persisted VideoRecord with a storage key has exactly one backing
\* object under that key in the Storage Gateway, whatever uploads, updates and
\* deletes have run and whichever of their puts, creates and deletes failed.
C1_RecordHasObject ==
  \A i \in Ids :
    (records[i] # Null /\ records[i].fileKey # NoKey)
      => Cardinality({o \in objects : o.key = records[i].fileKey}) = 1

\* C2: an upload whose file exceeds the size limit or whose content type is not a
\* video/* media type is rejected before the upload workflow is invoked: nothing
\* is put, no record is created, store and gateway are unchanged.
C2_InvalidUploadRejected ==
  [][\A w \in Workers :
       (/\ pc[w] = "idle"
        /\ pc'[w] # "idle"
        /\ req'[w].op = "uploadVideo"
        /\ (req'[w].file.size > maxSize \/ ~IsVideoMediaType(req'[w].file.mimetype)))
       => /\ pc'[w] = "done"
          /\ resp'[w].kind = "thrown"
          /\ ~loc'[w].invoked
          /\ loc'[w].key = NoKey
          /\ records' = records
          /\ objects' = objects
          /\ nextKey' = nextKey
          /\ nextId' = nextId]_vars

\* C3: when the put succeeds and the create fails, the compensating delete is
\* attempted exactly once, the caller receives the create's error even when that
\* delete fails, and when it succeeds no object remains under the key (signedUrl
\* on the key yields NotFound).
C3_Compensation ==
  \A w \in Workers :
    (Done(w, "uploadVideo") /\ loc[w].failedAt = "create")
      => /\ loc[w].delCalls = 1
         /\ resp[w].kind = "envelope"
         /\ resp[w].data = Null
         /\ resp[w].statusCode =
              (IF loc[w].error.statusCode # 0 THEN loc[w].error.statusCode
                                              ELSE HttpStatus_INTERNAL_SERVER_ERROR)
         /\ resp[w].message =
              (IF loc[w].error.message # "" THEN loc[w].error.message
                                           ELSE "Error al subir el video")
         /\ loc[w].delOk =>
              (~HasObject(loc[w].key) /\ GatewaySignedUrl(loc[w].key) = ErrorOf("NotFound"))

\* two uploads failed at create: the compensating delete of one worked, that of the
\* other failed and left its object
C3_Witness ==
  \E w, v \in Workers :
    /\ Done(w, "uploadVideo") /\ loc[w].failedAt = "create" /\ loc[w].delOk
    /\ loc[w].error.class = "ConflictError"
    /\ Done(v, "uploadVideo") /\ loc[v].failedAt = "create" /\ ~loc[v].delOk
    /\ HasObject(loc[v].key)

\* C4: getSignedUrl answers 404 with data null and never calls the gateway when
\* the lookup finds no record or a record without a storage key; otherwise it calls
\* the gateway's signedUrl exactly once, with the record's own key, and answers 200
\* with the URL the gateway returns.
C4_SignedUrl ==
  \A w \in Workers :
    /\ (Done(w, "getSignedUrl") /\ loc[w].invoked)
         => IF loc[w].video = Null \/ loc[w].video.fileKey = NoKey
              THEN /\ resp[w].statusCode = HttpStatus_NOT_FOUND
                   /\ resp[w].data = Null
                   /\ loc[w].signCalls = 0
              ELSE /\ loc[w].signCalls = 1
                   /\ loc[w].signKey = loc[w].video.fileKey
                   /\ loc[w].error = Null =>
                        /\ resp[w].statusCode = HttpStatus_OK
                        /\ resp[w].data = [tag |-> "url", key |-> loc[w].video.fileKey]
    /\ pc[w] = "sign" => (loc[w].video # Null /\ loc[w].video.fileKey # NoKey
                           /\ loc[w].signCalls = 0)

\* one request found a record without a key, another was given the URL of its record
C4_Witness ==
  \E w, v \in Workers :
    /\ Done(w, "getSignedUrl") /\ loc[w].invoked /\ loc[w].video # Null
    /\ loc[w].video.fileKey = NoKey /\ resp[w].statusCode = HttpStatus_NOT_FOUND
    /\ Done(v, "getSignedUrl") /\ loc[v].signCalls = 1
    /\ resp[v].statusCode = HttpStatus_OK

\* C5: findOne, update and remove on an identifier that has no VideoRecord answer
\* statusCode 200, data null and the not-found message, and leave the record store
\* and the gateway unchanged.
C5_LookupMiss ==
  [][\A w \in Workers :
       (/\ pc[w] = "idle"
        /\ pc'[w] # "idle"
        /\ req'[w].op \in {"findOne", "update", "remove"}
        /\ records[req'[w].id] = Null
        /\ loc'[w].error = Null)
       => /\ pc'[w] = "done"
          /\ resp'[w] = Envelope(HttpStatus_OK, "Video no encontrado", Null)
          /\ records' = records
          /\ objects' = objects]_vars

\* an update and a remove have each missed, while the store holds a record
C5_Witness ==
  \E w, v \in Workers :
    /\ Done(w, "remove") /\ loc[w].invoked /\ loc[w].video = Null
    /\ resp[w].message = "Video no encontrado"
    /\ Done(v, "update") /\ loc[v].invoked /\ loc[v].video = Null
    /\ resp[v].statusCode = HttpStatus_OK
    /\ \E i \in Ids : records[i] # Null /\ records[i].fileKey # NoKey

\* C6: an error raised by the record store or the gateway never leaves a handler:
\* the handler returns an envelope with data null whose statusCode is the code of
\* the error's classification, and 500 only for an unclassified error; a gateway
\* NotFound while signing for an existing record yields a NotFound response.
C6_ErrorsTranslated ==
  \A w \in Workers :
    (pc[w] = "done" /\ loc[w].error # Null)
      => /\ resp[w].kind = "envelope"
         /\ resp[w].data = Null
         /\ resp[w].statusCode =
              (IF loc[w].error.class = "InternalError" THEN HttpStatus_INTERNAL_SERVER_ERROR
                                                       ELSE StatusCodeOf(loc[w].error.class))
         /\ (resp[w].statusCode = HttpStatus_INTERNAL_SERVER_ERROR
               => loc[w].error.class = "InternalError")

\* the gateway reported NotFound for the key of a record the lookup had found, and
\* another handler caught an unclassified store error
C6_Witness ==
  \E w, v \in Workers :
    /\ Done(w, "getSignedUrl") /\ loc[w].video # Null /\ loc[w].error = ErrorOf("NotFound")
    /\ resp[w].statusCode = HttpStatus_NOT_FOUND
    /\ pc[v] = "done" /\ loc[v].error = ErrorOf("InternalError")

\* C7: for every route and every outcome of its handler, the HTTP transport status
\* equals the statusCode of the envelope the handler returns.
C7_TransportMirrorsEnvelope ==
  \A w \in Workers :
    (pc[w] = "done" /\ resp[w].kind = "envelope") => http[w] = resp[w].statusCode

\* C8: the size limit is 2 GiB: an upload with a video/* content type and a size of
\* at most 2 GiB passes file validation and reaches the upload workflow, and only
\* larger files are rejected for their size.
C8_LimitIsTwoGiB ==
  \A w \in Workers :
    (Done(w, "uploadVideo") /\ IsVideoMediaType(req[w].file.mimetype))
      => /\ req[w].file.size <= TwoGiB => (resp[w].kind # "thrown" /\ loc[w].invoked)
         /\ resp[w].kind = "thrown" => req[w].file.size > TwoGiB

\* C9: a request is exempt from the general limiter exactly when it targets the
\* upload endpoint, and then the upload limiter counts it; so at most 100 requests
\* to other endpoints are admitted per general window and at most 10 uploads per
\* upload window.
C9_RateLimits ==
  /\ last.url # <<>> =>
       /\ last.skipped <=> TargetsUpload(last.url)
       /\ last.skipped => last.counted
  /\ AdmittedOther <= GeneralMax
  /\ AdmittedUpload <= UploadMax

\* C10: the deadline of an upload request, the least of the timeouts in force on
\* it (the global TimeoutInterceptor, the request and response socket timeouts), is
\* strictly longer than the deadline of any request that is not an upload.
C10_UploadDeadlineLonger ==
  (last.passed /\ TargetsUpload(last.url))
    => \A u \in Urls : ~TargetsUpload(u) => last.deadline > EffectiveDeadline(u)

====
